---- MODULE Spec2Model ----
(***************************************************************************)
(* FightDB (src/fight_db.py): the Archetypes and Fights tables behind one  *)
(* sqlite connection, the operations add_ship, rename_ship, insert_fight   *)
(* and remove_fight, and the queries that read the tables.                 *)
(*                                                                         *)
(* arch and fights are the tables as the connection sees them, pending     *)
(* (uncommitted) statements included: every operation reads and writes     *)
(* through that one connection.  A table is the sequence of its rows in    *)
(* rowid order: a new row gets rowid max+1, so it is appended, and         *)
(* Archetypes rows are never deleted, so an archetype's id is its index.   *)
(* last is the last call's name and outcome, ncalls the number of calls    *)
(* made so far.                                                            *)
(***************************************************************************)
EXTENDS Integers, Sequences, FiniteSets, TLC

VARIABLES arch, fights, last, ncalls

vars == <<arch, fights, last, ncalls>>

(* ------------------------------ bounds --------------------------------- *)
(* The calls explored: every sequence of at most MaxCalls calls, each with *)
(* any arguments drawn from the sets below.                                *)
MaxCalls == 4

Names == {"A", "B", "C", "D"}
(* Who reports: the account id and the display name the front end passes. *)
Reporters == {<<"u1", "Alice">>, <<"u2", "Bob">>}
Authors == {rep[1] : rep \in Reporters}
Descs == {}

(* Python's None, for an optional argument that is not given. *)
None == "None"
(* SQL NULL in the integer column parentid. *)
NULL == 0

DRAW == 0
WIN == 1
LOSE == -1
(* The values of class FIGHT_RESULT; insert_fight documents all three as   *)
(* its result argument.                                                    *)
FIGHT_RESULT == {DRAW, WIN, LOSE}
(* The results reported in the calls explored. *)
Results == {DRAW, WIN}

(* ------------------------- Archetype queries --------------------------- *)
archetype_exists(A, shipname) == \E i \in DOMAIN A : A[i].name = shipname

(* fetchone()[0] raises TypeError when no row has the name. *)
get_ship_id_raises(A, shipname) ==
    shipname # None /\ ~archetype_exists(A, shipname)

get_ship_id(A, shipname) ==
    IF shipname = None THEN NULL
    ELSE LET ids == {i \in DOMAIN A : A[i].name = shipname}
         IN  CHOOSE i \in ids : \A j \in ids : i <= j

(* parentid = NULL is never true in SQL: NULL selects no row. *)
ship_is_leaf(A, shipname) ==
    LET id == get_ship_id(A, shipname)
    IN  ~(id # NULL /\ \E i \in DOMAIN A : A[i].parent = id)

RECURSIVE SelectNames(_, _, _)
SelectNames(A, id, i) ==
    IF i > Len(A) THEN <<>>
    ELSE (IF A[i].parent = id THEN <<A[i].name>> ELSE <<>>)
         \o SelectNames(A, id, i + 1)

(* Faulty variant: fetchone() where the code calls fetchall(), the first child only. *)
archetypes_children_FirstOnly(A, shipname) ==
    LET id == get_ship_id(A, shipname)
        names == IF id = NULL THEN <<>> ELSE SelectNames(A, id, 1)
    IN  IF names = <<>> THEN <<>> ELSE <<names[1]>>

(* The children's names, in the order the table scan returns them. *)
archetypes_children(A, shipname) ==
    LET id == get_ship_id(A, shipname)
    IN  IF id = NULL THEN <<>> ELSE SelectNames(A, id, 1)

RECURSIVE LeafNames(_, _)
LeafNames(A, i) ==
    IF i > Len(A) THEN <<>>
    ELSE (IF ship_is_leaf(A, A[i].name) THEN <<A[i].name>> ELSE <<>>)
         \o LeafNames(A, i + 1)

get_ships(A) == LeafNames(A, 1)

get_archetypes(A) == [i \in DOMAIN A |-> A[i].name]

(* ----------------------------- Fights ---------------------------------- *)
Fight(s1, s2, author, author_name, result) ==
    [shipname1 |-> s1, shipname2 |-> s2, author |-> author,
     author_name |-> author_name, result |-> result]

RemoveAt(F, i) == SubSeq(F, 1, i - 1) \o SubSeq(F, i + 1, Len(F))

(* Faulty variant: the pair is looked up in the order given only. *)
PairMatches_GivenOrderOnly(row, s1, s2, author) ==
    row.shipname1 = s1 /\ row.shipname2 = s2 /\ row.author = author

(* The WHERE clause shared by insert_fight's SELECT and remove_fight's      *)
(* DELETE: the pair in either stored order, and the author.                 *)
PairMatches(row, s1, s2, author) ==
    \/ row.shipname1 = s1 /\ row.shipname2 = s2 /\ row.author = author
    \/ row.shipname1 = s2 /\ row.shipname2 = s1 /\ row.author = author

(* Faulty variant: the existing row is not deleted before the INSERT. *)
InsertLeafFight_KeepsOld(F, s1, s2, author, author_name, result) ==
    Append(F, Fight(s1, s2, author, author_name, result))

(* insert_fight on two leaves: fetchone() gives the first matching row,     *)
(* DELETE ... WHERE id = that row's id removes it alone, INSERT appends.    *)
InsertLeafFight(F, s1, s2, author, author_name, result) ==
    LET hits == {i \in DOMAIN F : PairMatches(F[i], s1, s2, author)}
        kept == IF hits = {} THEN F
                ELSE RemoveAt(F, CHOOSE i \in hits : \A j \in hits : i <= j)
    IN  Append(kept, Fight(s1, s2, author, author_name, result))

OK == "ok"

(* con.commit() ending a call of insert_fight that raised nothing: the     *)
(* table as it stands becomes the committed one, which every other         *)
(* connection reads from then on.                                          *)
Commit(R) ==
    IF R.err = OK
    THEN [R EXCEPT !.cf = R.f, !.did = TRUE, !.seen = @ \cup {R.f}]
    ELSE R

(* The interpreter's recursion limit, scaled to the table: a forest of n    *)
(* archetypes nests insert_fight at most 2 * n deep, so only a parent       *)
(* cycle reaches these depths.  Where in the cycle RecursionError is raised *)
(* depends on the caller's stack: any of n + 1 consecutive depths.          *)
RecursionLimits(A) == (2 * Len(A) + 1)..(3 * Len(A) + 1)

(* R is the run so far: f the Fights table, cf its last committed value     *)
(* (when did), seen every value committed during the run, err the           *)
(* exception raised, if any.                                                *)
Entered(F) == [f |-> F, cf |-> <<>>, did |-> FALSE, seen |-> {}, err |-> OK]

RECURSIVE insert_fight(_, _, _, _, _, _, _, _, _)
RECURSIVE insert_children(_, _, _, _, _, _, _, _, _, _, _, _)

insert_fight(A, R, shipname1, shipname2, author, author_name, result, depth, lim) ==
    IF depth > lim THEN [R EXCEPT !.err = "RecursionError"]
    ELSE IF ~archetype_exists(A, shipname1) \/ ~archetype_exists(A, shipname2)
    THEN [R EXCEPT !.err = "NotFound"]
    ELSE IF ship_is_leaf(A, shipname1)
    THEN IF ship_is_leaf(A, shipname2)
         THEN Commit([R EXCEPT !.f = InsertLeafFight(R.f, shipname1, shipname2,
                                                     author, author_name, result)])
         ELSE Commit(insert_children(A, R, archetypes_children(A, shipname2), 1, 2,
                                     shipname1, shipname2, author, author_name,
                                     result, depth, lim))
    ELSE Commit(insert_children(A, R, archetypes_children(A, shipname1), 1, 1,
                                shipname1, shipname2, author, author_name,
                                result, depth, lim))

(* for ship in children: insert_fight(...) with ship on the given side; an  *)
(* exception ends the loop.                                                 *)
insert_children(A, R, children, k, side, shipname1, shipname2, author, author_name, result, depth, lim) ==
    IF k > Len(children) \/ R.err # OK THEN R
    ELSE insert_children(A,
            insert_fight(A, R,
                         IF side = 1 THEN children[k] ELSE shipname1,
                         IF side = 1 THEN shipname2 ELSE children[k],
                         author, author_name, result, depth + 1, lim),
            children, k + 1, side, shipname1, shipname2, author, author_name,
            result, depth, lim)

RECURSIVE DeleteMatching(_, _, _, _)
DeleteMatching(F, s1, s2, author) ==
    IF F = <<>> THEN <<>>
    ELSE (IF PairMatches(Head(F), s1, s2, author) THEN <<>> ELSE <<Head(F)>>)
         \o DeleteMatching(Tail(F), s1, s2, author)

(* UPDATE Fights SET shipname1 = new WHERE shipname1 = old, then the same   *)
(* for shipname2.                                                           *)
RenameShipname1(F, old, new) ==
    [i \in DOMAIN F |->
        IF F[i].shipname1 = old THEN [F[i] EXCEPT !.shipname1 = new] ELSE F[i]]

RenameShipname2(F, old, new) ==
    [i \in DOMAIN F |->
        IF F[i].shipname2 = old THEN [F[i] EXCEPT !.shipname2 = new] ELSE F[i]]

(* Faulty variant: the UPDATE of shipname2 is missing. *)
RenameInFights_Shipname1Only(F, old, new) == RenameShipname1(F, old, new)

RenameInFights(F, old, new) == RenameShipname2(RenameShipname1(F, old, new), old, new)

(* Faulty variant: the UPDATE of Archetypes is missing. *)
RenameInArchetypes_Forgotten(A, old, new) == A

(* UPDATE Archetypes SET shipname = new WHERE shipname = old *)
RenameInArchetypes(A, old, new) ==
    [i \in DOMAIN A |-> IF A[i].name = old THEN [A[i] EXCEPT !.name = new] ELSE A[i]]

(* UPDATE Archetypes SET parentid = id WHERE shipname = name *)
SetParent(A, name, id) ==
    [i \in DOMAIN A |-> IF A[i].name = name THEN [A[i] EXCEPT !.parent = id] ELSE A[i]]

(* UPDATE Archetypes SET description = d WHERE shipname = name *)
SetDescription(A, name, d) ==
    [i \in DOMAIN A |-> IF A[i].name = name THEN [A[i] EXCEPT !.desc = d] ELSE A[i]]

(* ------------------------------ rename --------------------------------- *)
(* The statements of rename_ship up to its first raise, or to its commit.  *)
(* The result holds the tables as the connection then sees them: nothing   *)
(* rolls back what was executed before a raise.                            *)
RenameNamePart(A, F, old_name, new_name) ==
    IF new_name = None THEN [arch |-> A, fights |-> F, err |-> OK]
    ELSE IF archetype_exists(A, new_name)
    THEN [arch |-> A, fights |-> F, err |-> "Conflict"]
    ELSE [arch |-> RenameInArchetypes(A, old_name, new_name),
          fights |-> RenameInFights(F, old_name, new_name), err |-> OK]

(* Faulty variant: the loop over the children is missing. *)
RenameParentPart_NoChildCheck(S, current_name, new_parent_name) ==
    IF new_parent_name = None THEN S
    ELSE IF ~archetype_exists(S.arch, new_parent_name)
    THEN [S EXCEPT !.err = "NotFound"]
    ELSE IF new_parent_name = current_name
    THEN [S EXCEPT !.err = "InvalidHierarchy"]
    ELSE [S EXCEPT !.arch = SetParent(S.arch, current_name,
                                      get_ship_id(S.arch, new_parent_name))]

RenameParentPart(S, current_name, new_parent_name) ==
    IF new_parent_name = None THEN S
    ELSE IF ~archetype_exists(S.arch, new_parent_name)
    THEN [S EXCEPT !.err = "NotFound"]
    ELSE IF new_parent_name = current_name
    THEN [S EXCEPT !.err = "InvalidHierarchy"]
    ELSE IF \E k \in DOMAIN archetypes_children(S.arch, current_name) :
                archetypes_children(S.arch, current_name)[k] = new_parent_name
    THEN [S EXCEPT !.err = "InvalidHierarchy"]
    ELSE [S EXCEPT !.arch = SetParent(S.arch, current_name,
                                      get_ship_id(S.arch, new_parent_name))]

RenameDescriptionPart(S, old_name, new_description) ==
    IF new_description = None THEN S
    ELSE [S EXCEPT !.arch = SetDescription(S.arch, old_name, new_description)]

rename_ship(A, F, old_name, new_name, new_parent_name, new_description) ==
    IF ~archetype_exists(A, old_name)
    THEN [arch |-> A, fights |-> F, err |-> "NotFound"]
    ELSE LET current_name == IF new_name = None THEN old_name ELSE new_name
             S1 == RenameNamePart(A, F, old_name, new_name)
             S2 == IF S1.err = OK
                   THEN RenameParentPart(S1, current_name, new_parent_name)
                   ELSE S1
         IN  IF S2.err = OK
             THEN RenameDescriptionPart(S2, old_name, new_description)
             ELSE S2

(* ------------------------------ add ------------------------------------ *)
(* Faulty variant: the test archetype_exists(shipname) is missing. *)
add_ship_NoExistsCheck(A, shipname, parent_name, description) ==
    IF get_ship_id_raises(A, parent_name)
    THEN [arch |-> A, err |-> "TypeError", did |-> FALSE]
    ELSE [arch |-> Append(A, [name |-> shipname,
                              parent |-> get_ship_id(A, parent_name),
                              desc |-> description]),
          err |-> OK, did |-> TRUE]

add_ship(A, shipname, parent_name, description) ==
    IF archetype_exists(A, shipname) THEN [arch |-> A, err |-> OK, did |-> FALSE]
    ELSE IF get_ship_id_raises(A, parent_name)
    THEN [arch |-> A, err |-> "TypeError", did |-> FALSE]
    ELSE [arch |-> Append(A, [name |-> shipname,
                              parent |-> get_ship_id(A, parent_name),
                              desc |-> description]),
          err |-> OK, did |-> TRUE]

(* ------------------------------ queries -------------------------------- *)
(* A call of ship_is_leaf with any argument: what it returns, or the       *)
(* exception get_ship_id ends it with.                                     *)
ship_is_leaf_outcome(A, shipname) ==
    IF get_ship_id_raises(A, shipname) THEN [value |-> FALSE, err |-> "TypeError"]
    ELSE [value |-> ship_is_leaf(A, shipname), err |-> OK]

(* A dict from opponent name to the list of author names, as a function on *)
(* its keys.                                                               *)
NoEntries == <<>>

(* d[key].append(v) if key in d, else d[key] = [v] *)
DictAppend(d, key, v) ==
    IF key \in DOMAIN d THEN [d EXCEPT ![key] = Append(@, v)]
    ELSE [k \in DOMAIN d \cup {key} |-> IF k = key THEN <<v>> ELSE d[k]]

(* Faulty variant: the else of the DRAW test is missing, so a draw row is   *)
(* filed under wins or losses as well.                                     *)
MatchupsRow_NoElse(M, row, ship_name) ==
    LET opponent == IF row.shipname1 # ship_name THEN row.shipname1
                    ELSE row.shipname2
        M1 == IF row.result = DRAW
              THEN [M EXCEPT !.draws = DictAppend(@, opponent, row.author_name)]
              ELSE M
    IN  IF row.shipname1 = ship_name
        THEN [M1 EXCEPT !.wins = DictAppend(@, row.shipname2, row.author_name)]
        ELSE [M1 EXCEPT !.losses = DictAppend(@, row.shipname1, row.author_name)]

(* Faulty variant: a loss is keyed by the name stored second, the ship     *)
(* itself, instead of the stored winner.                                   *)
MatchupsRow_LossKeyedBySecond(M, row, ship_name) ==
    IF row.result = DRAW
    THEN LET opponent == IF row.shipname1 # ship_name THEN row.shipname1
                         ELSE row.shipname2
         IN  [M EXCEPT !.draws = DictAppend(@, opponent, row.author_name)]
    ELSE IF row.shipname1 = ship_name
    THEN [M EXCEPT !.wins = DictAppend(@, row.shipname2, row.author_name)]
    ELSE [M EXCEPT !.losses = DictAppend(@, row.shipname2, row.author_name)]

(* The body of get_matchups' loop for one row that involves ship_name and  *)
(* passes the filter: any result other than DRAW is read as a win of the   *)
(* name stored first.                                                      *)
MatchupsRow(M, row, ship_name) ==
    IF row.result = DRAW
    THEN LET opponent == IF row.shipname1 # ship_name THEN row.shipname1
                         ELSE row.shipname2
         IN  [M EXCEPT !.draws = DictAppend(@, opponent, row.author_name)]
    ELSE IF row.shipname1 = ship_name
    THEN [M EXCEPT !.wins = DictAppend(@, row.shipname2, row.author_name)]
    ELSE [M EXCEPT !.losses = DictAppend(@, row.shipname1, row.author_name)]

RECURSIVE MatchupsLoop(_, _, _, _, _)
MatchupsLoop(F, i, ship_name, player_name, M) ==
    IF i > Len(F) THEN M
    ELSE MatchupsLoop(F, i + 1, ship_name, player_name,
            IF /\ F[i].shipname1 = ship_name \/ F[i].shipname2 = ship_name
               /\ player_name = None \/ F[i].author_name = player_name
            THEN MatchupsRow(M, F[i], ship_name)
            ELSE M)

get_matchups(A, F, ship_name, player_name) ==
    LET M0 == [wins |-> NoEntries, draws |-> NoEntries, losses |-> NoEntries,
               err |-> OK]
    IN  IF ~archetype_exists(A, ship_name) THEN [M0 EXCEPT !.err = "NotFound"]
        ELSE MatchupsLoop(F, 1, ship_name, player_name, M0)

get_unknown_matchups(A, F, shipname, player_name) ==
    LET ships    == get_ships(A)
        m        == get_matchups(A, F, shipname, player_name)
        matchups == DOMAIN m.wins \cup DOMAIN m.draws \cup DOMAIN m.losses
    IN  IF m.err # OK THEN [value |-> <<>>, err |-> m.err]
        ELSE [value |-> SelectSeq(ships, LAMBDA ship : ship \notin matchups),
              err |-> OK]

(* SELECT ... WHERE shipname1 = s1 AND shipname2 = s2 AND result = result *)
SelectFights(F, s1, s2, result) ==
    SelectSeq(F, LAMBDA row : /\ row.shipname1 = s1
                              /\ row.shipname2 = s2
                              /\ row.result = result)

(* simulate_fight's three lists of author names; its draws are one SELECT  *)
(* over both stored orders.                                                *)
simulate_fight(A, F, shipname1, shipname2) ==
    LET names(rows) == [i \in DOMAIN rows |-> rows[i].author_name]
    IN  IF ~archetype_exists(A, shipname1) \/ ~archetype_exists(A, shipname2)
        THEN [winners |-> <<>>, draws |-> <<>>, losers |-> <<>>, err |-> "NotFound"]
        ELSE [winners |-> names(SelectFights(F, shipname1, shipname2, WIN)),
              losers  |-> names(SelectFights(F, shipname2, shipname1, WIN)),
              draws   |-> names(SelectSeq(F, LAMBDA row :
                                   /\ row.result = DRAW
                                   /\ \/ /\ row.shipname1 = shipname1
                                         /\ row.shipname2 = shipname2
                                      \/ /\ row.shipname1 = shipname2
                                         /\ row.shipname2 = shipname1)),
              err |-> OK]

(* Faulty variant: >= where the code compares with >. *)
get_average_match_TieWins(F, ship1, ship2) ==
    LET num_wins == Len(SelectFights(F, ship1, ship2, WIN))
        num_loss == Len(SelectFights(F, ship2, ship1, WIN))
        num_draw == Len(SelectFights(F, ship1, ship2, DRAW))
                    + Len(SelectFights(F, ship2, ship1, DRAW))
    IN  IF num_wins >= num_loss /\ num_wins >= num_draw THEN WIN
        ELSE IF num_loss >= num_wins /\ num_loss >= num_draw THEN LOSE
        ELSE DRAW

(* Four SELECTs, the draws counted once per stored order. *)
get_average_match(F, ship1, ship2) ==
    LET num_wins == Len(SelectFights(F, ship1, ship2, WIN))
        num_loss == Len(SelectFights(F, ship2, ship1, WIN))
        num_draw == Len(SelectFights(F, ship1, ship2, DRAW))
                    + Len(SelectFights(F, ship2, ship1, DRAW))
    IN  IF num_wins > num_loss /\ num_wins > num_draw THEN WIN
        ELSE IF num_loss > num_wins /\ num_loss > num_draw THEN LOSE
        ELSE DRAW

(* ------------------------------ actions -------------------------------- *)
Init ==
    /\ arch = <<>>
    /\ fights = <<>>
    /\ ncalls = 0
    /\ last = [op |-> "init", err |-> OK]

(* One more call, while the bound allows it. *)
Called == ncalls < MaxCalls /\ ncalls' = ncalls + 1

AddShip(shipname, parent_name, description) ==
    LET r == add_ship(arch, shipname, parent_name, description)
    IN  /\ Called
        /\ arch' = r.arch
        /\ fights' = fights
        /\ last' = [op |-> "add_ship", shipname |-> shipname,
                    parent_name |-> parent_name, description |-> description,
                    err |-> r.err]

RenameShip(old_name, new_name, new_parent_name, new_description) ==
    LET r == rename_ship(arch, fights, old_name, new_name, new_parent_name,
                         new_description)
    IN  /\ Called
        /\ arch' = r.arch
        /\ fights' = r.fights
        /\ last' = [op |-> "rename_ship", old_name |-> old_name,
                    new_name |-> new_name, new_parent_name |-> new_parent_name,
                    new_description |-> new_description, err |-> r.err]

InsertFight(shipname1, shipname2, author, author_name, result, lim) ==
    LET r == insert_fight(arch, Entered(fights), shipname1, shipname2, author,
                          author_name, result, 1, lim)
    IN  /\ Called
        /\ arch' = arch
        /\ fights' = r.f
        /\ last' = [op |-> "insert_fight", shipname1 |-> shipname1,
                    shipname2 |-> shipname2, author |-> author,
                    author_name |-> author_name, result |-> result,
                    err |-> r.err]

RemoveFight(shipname1, shipname2, author) ==
    /\ Called
    /\ arch' = arch
    /\ fights' = DeleteMatching(fights, shipname1, shipname2, author)
    /\ last' = [op |-> "remove_fight", shipname1 |-> shipname1,
                shipname2 |-> shipname2, author |-> author, err |-> OK]

Next ==
    \/ \E n \in Names, p \in Names \cup {None}, d \in Descs \cup {None} :
          AddShip(n, p, d)
    \/ \E o \in Names, n \in Names \cup {None}, p \in Names \cup {None},
          d \in Descs \cup {None} : RenameShip(o, n, p, d)
    \/ \E s1 \in Names, s2 \in Names, rep \in Reporters, r \in Results,
          lim \in RecursionLimits(arch) :
          InsertFight(s1, s2, rep[1], rep[2], r, lim)
    \/ \E s1 \in Names, s2 \in Names, a \in Authors : RemoveFight(s1, s2, a)

Spec == Init /\ [][Next]_vars

(* ======================= properties of the store ======================= *)
(* Helpers of the statements below; none of them is part of the program.   *)
SamePair(row, a, b) ==
    \/ row.shipname1 = a /\ row.shipname2 = b
    \/ row.shipname1 = b /\ row.shipname2 = a

ArchNames(A) == {A[i].name : i \in DOMAIN A}

IdOf(A, n) == CHOOSE i \in DOMAIN A : A[i].name = n

ChildSet(A, n) == {A[i].name : i \in {j \in DOMAIN A : A[j].parent = IdOf(A, n)}}

HasChild(A, n) == ChildSet(A, n) # {}

RECURSIVE Closure(_, _, _)
Closure(A, S, k) ==
    IF k = 0 THEN S
    ELSE Closure(A, S \cup UNION {ChildSet(A, n) : n \in S}, k - 1)

(* Every archetype below n, at any depth (n itself when n lies on a cycle). *)
Descendants(A, n) == Closure(A, ChildSet(A, n), Len(A))

LeafDescendants(A, n) == {d \in Descendants(A, n) : ~HasChild(A, d)}

OnCycle(A, n) == n \in Descendants(A, n)

(* C1: in every reachable state the Fights table holds at most one row per *)
(* unordered pair of names per author, (A,B) and (B,A) being the same pair. *)
C1_OneRowPerPairPerAuthor ==
    \A i \in DOMAIN fights : \A j \in DOMAIN fights :
        (i < j /\ fights[i].author = fights[j].author)
            => ~SamePair(fights[j], fights[i].shipname1, fights[i].shipname2)

(* A report for a pair that another author has reported in the other order. *)
C1_Witness ==
    /\ last.op = "insert_fight" /\ last.err = OK
    /\ last.shipname1 # last.shipname2
    /\ fights # <<>>
    /\ fights[Len(fights)].shipname1 = last.shipname1
    /\ fights[Len(fights)].shipname2 = last.shipname2
    /\ fights[Len(fights)].author = last.author
    /\ \E i \in DOMAIN fights :
          /\ fights[i].author # last.author
          /\ fights[i].shipname1 = last.shipname2
          /\ fights[i].shipname2 = last.shipname1

Leaves(A) == {n \in ArchNames(A) : ~HasChild(A, n)}

RowsOf(F, x, a, b) == {i \in DOMAIN F : F[i].author = x /\ SamePair(F[i], a, b)}

(* The rows of F other than author x's rows for the pair {a, b}, in order. *)
RowsBeside(F, x, a, b) ==
    SelectSeq(F, LAMBDA row : ~(row.author = x /\ SamePair(row, a, b)))

(* C2: for leaves a, b and an author x, after reportFight(a,b,x,_,WIN) and *)
(* then reportFight(b,a,x,_,WIN) exactly one row exists for {a,b} by x, it  *)
(* is stored with b first, and every other row (those of other authors for  *)
(* {a,b} among them) is unchanged.                                          *)
C2_SecondReportSupersedes ==
    \A a \in Leaves(arch) : \A b \in Leaves(arch) : \A rep \in Reporters :
    \A lim \in RecursionLimits(arch) :
        LET x  == rep[1]
            r1 == insert_fight(arch, Entered(fights), a, b, x, rep[2], WIN, 1, lim)
            r2 == insert_fight(arch, Entered(r1.f), b, a, x, rep[2], WIN, 1, lim)
        IN  /\ r1.err = OK
            /\ r2.err = OK
            /\ Cardinality(RowsOf(r2.f, x, a, b)) = 1
            /\ \A i \in RowsOf(r2.f, x, a, b) :
                  /\ r2.f[i].shipname1 = b
                  /\ r2.f[i].shipname2 = a
                  /\ r2.f[i].result = WIN
            /\ RowsBeside(r2.f, x, a, b) = RowsBeside(fights, x, a, b)

(* x has reported a over b, another author holds a row for the same pair,  *)
(* and b over a can be reported next.                                      *)
C2_Witness ==
    /\ last.op = "insert_fight" /\ last.err = OK /\ last.result = WIN
    /\ last.shipname1 # last.shipname2
    /\ {last.shipname1, last.shipname2} \subseteq Leaves(arch)
    /\ \E i \in RowsOf(fights, last.author, last.shipname1, last.shipname2) :
          fights[i].shipname1 = last.shipname1
    /\ \E j \in DOMAIN fights :
          /\ fights[j].author # last.author
          /\ SamePair(fights[j], last.shipname1, last.shipname2)

(* C3: when exactly one of name1, name2 is internal and the other is a     *)
(* leaf outside its subtree, reportFight(name1,name2,x,_,r) leaves, for     *)
(* author x, exactly one row per leaf descendant d of the internal side,    *)
(* with d on the side the internal name was given, the leaf on the other    *)
(* side and result r; and no row authored by x names the internal           *)
(* archetype itself.                                                        *)
C3_FanOutOverOneSide ==
    \A n1 \in ArchNames(arch) : \A n2 \in ArchNames(arch) :
    \A rep \in Reporters : \A r \in Results : \A lim \in RecursionLimits(arch) :
        LET x   == rep[1]
            p   == IF HasChild(arch, n1) THEN n1 ELSE n2
            b   == IF HasChild(arch, n1) THEN n2 ELSE n1
            res == insert_fight(arch, Entered(fights), n1, n2, x, rep[2], r, 1, lim)
        IN  ( /\ HasChild(arch, n1) # HasChild(arch, n2)
              /\ b \notin Descendants(arch, p) )
            => /\ \A d \in LeafDescendants(arch, p) :
                    /\ Cardinality(RowsOf(res.f, x, d, b)) = 1
                    /\ \A i \in RowsOf(res.f, x, d, b) :
                          /\ res.f[i].shipname1 = (IF p = n1 THEN d ELSE b)
                          /\ res.f[i].shipname2 = (IF p = n1 THEN b ELSE d)
                          /\ res.f[i].result = r
               /\ \A i \in DOMAIN res.f :
                     res.f[i].author = x
                        => (res.f[i].shipname1 # p /\ res.f[i].shipname2 # p)

C5_RowsNameLeavesOnly ==
    \A i \in DOMAIN fights :
        /\ fights[i].shipname1 \in ArchNames(arch)
        /\ fights[i].shipname2 \in ArchNames(arch)
        /\ ~HasChild(arch, fights[i].shipname1)
        /\ ~HasChild(arch, fights[i].shipname2)

(* C6: in every reachable state the parent relation is a forest: following *)
(* parent references from an archetype never returns to it.                 *)
C6_ParentsFormForest == \A n \in ArchNames(arch) : ~OnCycle(arch, n)

(* C7: for an archetype p with a direct child c, rename(p, newParent=c)    *)
(* fails with InvalidHierarchy and changes no archetype's parent; so does   *)
(* rename(p, newParent=p), and nothing at all is changed.                   *)
C7_CycleOneHopRejected ==
    [][ ( /\ last'.op = "rename_ship"
          /\ last'.new_name = None
          /\ last'.old_name \in ArchNames(arch)
          /\ \/ last'.new_parent_name = last'.old_name
             \/ last'.new_parent_name \in ChildSet(arch, last'.old_name) )
        => ( /\ last'.err = "InvalidHierarchy"
             /\ arch' = arch
             /\ fights' = fights ) ]_vars

(* rename(p, newParent=c), c a child of p, was called and rejected. *)
C7_Witness ==
    /\ last.op = "rename_ship" /\ last.err = "InvalidHierarchy"
    /\ last.new_name = None
    /\ last.old_name \in ArchNames(arch)
    /\ last.new_parent_name \in ChildSet(arch, last.old_name)

(* C8: a rename call that fails performs no mutation: the Archetypes and   *)
(* Fights tables every later operation sees are those before the call.     *)
C8_FailedRenameChangesNothing ==
    [][ (last'.op = "rename_ship" /\ last'.err # OK)
        => (arch' = arch /\ fights' = fights) ]_vars

(* C9: after a successful rename(oldName, newName) no Fights row names     *)
(* oldName, every row that named it names newName on that side, and every  *)
(* other field of every row, and the number of rows, is unchanged.         *)
C9_RenameCascadesToFights ==
    [][ (last'.op = "rename_ship" /\ last'.err = OK /\ last'.new_name # None)
        => LET old == last'.old_name
               new == last'.new_name
           IN  /\ Len(fights') = Len(fights)
               /\ \A i \in DOMAIN fights :
                     /\ fights'[i].shipname1 =
                          (IF fights[i].shipname1 = old THEN new
                           ELSE fights[i].shipname1)
                     /\ fights'[i].shipname2 =
                          (IF fights[i].shipname2 = old THEN new
                           ELSE fights[i].shipname2)
                     /\ fights'[i].author = fights[i].author
                     /\ fights'[i].author_name = fights[i].author_name
                     /\ fights'[i].result = fights[i].result
                     /\ fights'[i].shipname1 # old
                     /\ fights'[i].shipname2 # old ]_vars

(* A rename has carried a row over, next to a name it had to leave alone. *)
C9_Witness ==
    /\ last.op = "rename_ship" /\ last.err = OK /\ last.new_name # None
    /\ \E i \in DOMAIN fights :
          (fights[i].shipname1 = last.new_name) # (fights[i].shipname2 = last.new_name)

(* C10: for an existing archetype a and a name b no archetype uses,        *)
(* rename(a, newName=b) then rename(b, newName=a) both succeed and leave    *)
(* the Fights table and the archetype names as before the first call.      *)
C10_RenameRoundTrip ==
    \A a \in ArchNames(arch) : \A b \in Names \ ArchNames(arch) :
        LET r1 == rename_ship(arch, fights, a, b, None, None)
            r2 == rename_ship(r1.arch, r1.fights, b, a, None, None)
        IN  /\ r1.err = OK
            /\ r2.err = OK
            /\ r2.fights = fights
            /\ get_archetypes(r2.arch) = get_archetypes(arch)

(* The first rename has been made on an archetype with fights on both      *)
(* sides, and the old name is free for the way back.                       *)
C10_Witness ==
    /\ last.op = "rename_ship" /\ last.err = OK /\ last.new_name # None
    /\ last.new_parent_name = None
    /\ last.old_name \notin ArchNames(arch)
    /\ \E i \in DOMAIN fights : fights[i].shipname1 = last.new_name
    /\ \E j \in DOMAIN fights : fights[j].shipname2 = last.new_name

(* The author filters a reader can pass: none, or a display name. *)
PlayerNames == {rep[2] : rep \in Reporters}
Filters == PlayerNames \cup {None}

Elements(seq) == {seq[i] : i \in DOMAIN seq}

MatchupKeys(m) == DOMAIN m.wins \cup DOMAIN m.draws \cup DOMAIN m.losses

(* C11: in every reachable state, for every known archetype s and with or  *)
(* without an author filter, unknownMatchups(s) shares no name with the    *)
(* opponents keyed in wins(s), draws(s) and losses(s), and together with   *)
(* those keys it is exactly allLeafNames().                                *)
C11_UnknownMatchupsPartition ==
    \A s \in ArchNames(arch) : \A p \in Filters :
        LET m == get_matchups(arch, fights, s, p)
            u == get_unknown_matchups(arch, fights, s, p)
        IN  /\ u.err = OK
            /\ Elements(u.value) \cap MatchupKeys(m) = {}
            /\ Elements(u.value) \cup MatchupKeys(m) = Elements(get_ships(arch))

(* The rows of F reported by author x, in order. *)
RowsBy(F, x) == SelectSeq(F, LAMBDA row : row.author = x)

(* How many labels a dict holds under the key o. *)
Entries(d, o) == IF o \in DOMAIN d THEN Len(d[o]) ELSE 0

Outcomes(m, o) ==
    {k \in {"wins", "draws", "losses"} : o \in DOMAIN m[k]}

(* C12: in every reachable state, for every archetype s and opponent o, a  *)
(* single author contributes to at most one of wins(s)[o], draws(s)[o] and *)
(* losses(s)[o]; an opponent is keyed under more than one outcome only     *)
(* when two different authors hold rows for the pair that differ in result *)
(* or in stored order.                                                     *)
C12_OneOutcomePerAuthor ==
    \A s \in ArchNames(arch) : \A o \in Names :
        /\ \A x \in Authors :
              LET m == get_matchups(arch, RowsBy(fights, x), s, None)
              IN  Entries(m.wins, o) + Entries(m.draws, o) + Entries(m.losses, o) <= 1
        /\ \A p \in Filters :
              Cardinality(Outcomes(get_matchups(arch, fights, s, p), o)) > 1
                 => \E i \in DOMAIN fights : \E j \in DOMAIN fights :
                       /\ fights[i].author # fights[j].author
                       /\ SamePair(fights[i], s, o)
                       /\ SamePair(fights[j], s, o)
                       /\ \/ fights[i].result # fights[j].result
                          \/ fights[i].shipname1 # fights[j].shipname1

(* Two authors disagree about a pair: the opponent is keyed under two      *)
(* outcomes, each author under one of them.                                *)
C12_Witness ==
    \E s \in ArchNames(arch) : \E o \in ArchNames(arch) \ {s} :
        LET m == get_matchups(arch, fights, s, None)
        IN  /\ Cardinality(Outcomes(m, o)) = 2
            /\ Entries(m.wins, o) + Entries(m.draws, o) + Entries(m.losses, o) = 2

(* C13: in every reachable state every Fights row has result WIN or DRAW,  *)
(* and LOSE is never stored, whatever result value reportFight is called   *)
(* with: neither the table nor the table after one more report, with any   *)
(* value of FIGHT_RESULT, holds another result.                            *)
C13_LoseNeverStored ==
    /\ \A i \in DOMAIN fights : fights[i].result \in {WIN, DRAW}
    /\ \A n1 \in ArchNames(arch) : \A n2 \in ArchNames(arch) :
       \A rep \in Reporters : \A r \in FIGHT_RESULT :
       \A lim \in RecursionLimits(arch) :
          LET res == insert_fight(arch, Entered(fights), n1, n2, rep[1], rep[2],
                                  r, 1, lim)
          IN  \A i \in DOMAIN res.f : res.f[i].result \in {WIN, DRAW}

(* How often the label n stands under the key o of a dict. *)
LabelCount(d, o, n) ==
    IF o \in DOMAIN d THEN Cardinality({k \in DOMAIN d[o] : d[o][k] = n}) ELSE 0

(* The rows a call matchups(s, p) reads: those that name s and pass p. *)
Involved(F, s, p) ==
    {i \in DOMAIN F : /\ F[i].shipname1 = s \/ F[i].shipname2 = s
                      /\ p = None \/ F[i].author_name = p}

(* C14: matchups(s) files every Fights row that involves s and passes the  *)
(* author filter exactly once: a DRAW row under draws keyed by the other   *)
(* name, a WIN row with s stored first under wins keyed by the second      *)
(* name, a WIN row with s stored second only under losses keyed by the     *)
(* stored winner; so for distinct a, b an author label is in wins(a)[b]    *)
(* exactly when it is in losses(b)[a].                                     *)
C14_MatchupsClassifiesOnce ==
    \A s \in ArchNames(arch) : \A p \in Filters :
        LET m    == get_matchups(arch, fights, s, p)
            rows == Involved(fights, s, p)
        IN  /\ m.err = OK
            /\ \A o \in Names : \A n \in PlayerNames :
                  /\ LabelCount(m.draws, o, n) = Cardinality(
                        {i \in rows : /\ fights[i].result = DRAW
                                      /\ fights[i].author_name = n
                                      /\ SamePair(fights[i], s, o)})
                  /\ LabelCount(m.wins, o, n) = Cardinality(
                        {i \in rows : /\ fights[i].result = WIN
                                      /\ fights[i].author_name = n
                                      /\ fights[i].shipname1 = s
                                      /\ fights[i].shipname2 = o})
                  /\ LabelCount(m.losses, o, n) = Cardinality(
                        {i \in rows : /\ fights[i].result = WIN
                                      /\ fights[i].author_name = n
                                      /\ fights[i].shipname1 = o
                                      /\ fights[i].shipname1 # s
                                      /\ fights[i].shipname2 = s})
            /\ MatchupKeys(m) \subseteq Names
            /\ \A k \in {"wins", "draws", "losses"} : \A o \in DOMAIN m[k] :
                  Elements(m[k][o]) \subseteq PlayerNames
            /\ \A b \in ArchNames(arch) \ {s} : \A n \in PlayerNames :
                  LabelCount(m.wins, b, n) > 0
                     <=> LabelCount(get_matchups(arch, fights, b, p).losses, s, n) > 0

(* An archetype has lost to an opponent by one author's report and drawn   *)
(* by another's.                                                           *)
C14_Witness ==
    \E s \in ArchNames(arch) : \E o \in ArchNames(arch) \ {s} :
        LET m == get_matchups(arch, fights, s, None)
        IN  /\ Entries(m.losses, o) = 1
            /\ Entries(m.draws, o) = 1
            /\ Entries(get_matchups(arch, fights, o, None).wins, s) = 1

(* The rows that store n1 as winner over n2, and the draw rows between the *)
(* two in either order.                                                    *)
WinRows(F, n1, n2) ==
    {i \in DOMAIN F : F[i].shipname1 = n1 /\ F[i].shipname2 = n2 /\ F[i].result = WIN}

DrawRows(F, n1, n2) ==
    {i \in DOMAIN F : SamePair(F[i], n1, n2) /\ F[i].result = DRAW}

(* C15: the majority prediction for (name1, name2) is WIN iff the rows     *)
(* with name1 stored as winner over name2 strictly outnumber both the rows *)
(* with name2 stored as winner over name1 and the draw rows between them   *)
(* in either order, LOSE iff the loss rows strictly outnumber both others, *)
(* and DRAW in every other case, ties among the top counts included; the   *)
(* tally of simulateFight lists exactly these rows.                        *)
C15_MajorityPrediction ==
    \A n1 \in Names : \A n2 \in Names :
        LET W == Cardinality(WinRows(fights, n1, n2))
            L == Cardinality(WinRows(fights, n2, n1))
            D == Cardinality(DrawRows(fights, n1, n2))
            g == get_average_match(fights, n1, n2)
            t == simulate_fight(arch, fights, n1, n2)
        IN  /\ g = WIN  <=> (W > L /\ W > D)
            /\ g = LOSE <=> (L > W /\ L > D)
            /\ g = DRAW <=> ~(W > L /\ W > D) /\ ~(L > W /\ L > D)
            /\ t.err = OK
                 => /\ Len(t.winners) = W
                    /\ Len(t.losers) = L
                    /\ Len(t.draws) = D

(* Both authors have reported the same winner of a pair: two against none, *)
(* and the mirrored question is predicted lost.                            *)
C15_Witness ==
    \E n1 \in ArchNames(arch) : \E n2 \in ArchNames(arch) \ {n1} :
        /\ Cardinality(WinRows(fights, n1, n2)) = 2
        /\ get_average_match(fights, n1, n2) = WIN
        /\ get_average_match(fights, n2, n1) = LOSE

UniqueNames(A) == \A i \in DOMAIN A : \A j \in DOMAIN A : A[i].name = A[j].name => i = j

(* C16: archetype names are unique in every reachable state: no call, a    *)
(* rename among them, leaves two archetypes with one name, and add(name,   *)
(* ...) on an existing name returns without changing anything, so the one  *)
(* row for name keeps its parent and description.                          *)
C16_NamesStayUnique ==
    [][ /\ UniqueNames(arch')
        /\ (last'.op = "add_ship" /\ last'.shipname \in ArchNames(arch))
              => /\ last'.err = OK
                 /\ arch' = arch
                 /\ fights' = fights ]_vars

(* add was called for an existing root archetype with a parent given, and  *)
(* the archetype is a root still.                                          *)
C16_Witness ==
    /\ last.op = "add_ship" /\ last.err = OK
    /\ last.parent_name \in ArchNames(arch) \ {last.shipname}
    /\ \E i \in DOMAIN arch : arch[i].name = last.shipname /\ arch[i].parent = NULL

(* C17: rename(oldName, newName=n, ...) of an existing archetype fails     *)
(* with Conflict exactly when n is the name of another archetype; when n   *)
(* is the archetype's own name the call does not fail with Conflict and    *)
(* an acceptable newParent is applied.                                     *)
C17_ConflictOnlyForAnotherArchetype ==
    [][ ( /\ last'.op = "rename_ship"
          /\ last'.new_name # None
          /\ last'.old_name \in ArchNames(arch) )
        => /\ (last'.err = "Conflict")
                <=> (last'.new_name \in ArchNames(arch) \ {last'.old_name})
           /\ ( /\ last'.new_name = last'.old_name
                /\ last'.new_parent_name \in ArchNames(arch) \ {last'.old_name}
                /\ last'.new_parent_name \notin ChildSet(arch, last'.old_name) )
              => /\ last'.err = OK
                 /\ arch' = SetParent(arch, last'.old_name,
                                      get_ship_id(arch, last'.new_parent_name)) ]_vars

(* C18: isLeaf(name) returns true for a name that is not an existing       *)
(* archetype, rather than failing, and for an existing name it returns     *)
(* true iff no archetype's parent is that archetype.                       *)
C18_IsLeafOfUnknownName ==
    \A n \in Names :
        LET r == ship_is_leaf_outcome(arch, n)
        IN  /\ r.err = OK
            /\ r.value <=> (n \notin ArchNames(arch) \/ ~HasChild(arch, n))

(* C19: a top-level reportFight that expands to several leaf pairs commits *)
(* as a unit: the only table committed during a call that returns is the   *)
(* one with all of the call's rows written, so a reader on another         *)
(* connection never sees some but not all of them, and a call that fails   *)
(* has committed nothing.                                                  *)
C19_ReportCommitsAsUnit ==
    \A n1 \in ArchNames(arch) : \A n2 \in ArchNames(arch) :
    \A rep \in Reporters : \A r \in Results : \A lim \in RecursionLimits(arch) :
        LET res == insert_fight(arch, Entered(fights), n1, n2, rep[1], rep[2],
                                r, 1, lim)
        IN  /\ res.err = OK => res.seen = {res.f}
            /\ res.err # OK => res.seen = {}

(* C20: in every reachable state reportFight(name1, name2, ...) on two     *)
(* existing names terminates: the recursion over the children reaches the  *)
(* leaf pairs and the call returns, without running into the recursion     *)
(* limit.                                                                  *)
C20_ReportFightTerminates ==
    \A n1 \in ArchNames(arch) : \A n2 \in ArchNames(arch) :
    \A rep \in Reporters : \A r \in Results : \A lim \in RecursionLimits(arch) :
        insert_fight(arch, Entered(fights), n1, n2, rep[1], rep[2], r, 1, lim).err = OK

(* The descriptions a rename is given in the statement below. *)
NewDescriptions == {"fast", "heavy"}

DescriptionOf(A, n) == A[IdOf(A, n)].desc

(* C21: after a successful rename(oldName, newName=n, newDescription=d),   *)
(* both given, the archetype now named n has description d, as the         *)
(* archetype has when newName is omitted, and no other archetype's         *)
(* description changes.                                                    *)
C21_RenameWithDescription ==
    \A a \in ArchNames(arch) : \A d \in NewDescriptions :
        /\ \A n \in Names \ ArchNames(arch) :
              LET r == rename_ship(arch, fights, a, n, None, d)
              IN  r.err = OK
                    => /\ DescriptionOf(r.arch, n) = d
                       /\ \A i \in DOMAIN arch :
                             arch[i].name # a => r.arch[i].desc = arch[i].desc
        /\ LET r == rename_ship(arch, fights, a, None, None, d)
           IN  r.err = OK
                 => /\ DescriptionOf(r.arch, a) = d
                    /\ \A i \in DOMAIN arch :
                          arch[i].name # a => r.arch[i].desc = arch[i].desc

====
